---- MODULE Spec2Model ----
(***************************************************************************)
(* Model of sekr8s: the BetterPrompt line buffer (src/better_prompt.js),   *)
(* the get / set / create commands (src/commands.js) and the top-level     *)
(* promise chain of the CLI (src/cli.js).                                  *)
(*                                                                         *)
(* Text is a sequence of one-character strings, a Buffer is a sequence of  *)
(* byte values.  `undefined` for the waiter slot is 0.                     *)
(***************************************************************************)
EXTENDS Integers, Sequences, FiniteSets, TLC

VARIABLES
    args,         \* parsed command line: command, key, flag, quiet
    secret,       \* the cluster's secret: sequence of [key, value] entries
    isTTY,        \* process.stdin.isTTY
    instream,     \* lines of standard input not yet emitted by readline
    prompt,       \* the BetterPrompt instance (fields of the object)
    requests,     \* the promises returned by getNextLine, in call order
    delivered,    \* history: every line passed to handleLine, in order
    pc,           \* position of the CLI's promise chain
    keys,         \* setSecret's local `keys`
    pairs,        \* setSecret's accumulator of [key, value]
    kubectlCalls, \* every spawnSync of kubectl, in order
    stdout,       \* writes to process.stdout, in order
    stderr,       \* writes to process.stderr, in order
    err,          \* the rejection travelling down the promise chain
    exitCode,     \* process exit status, None while running
    events,       \* history: prompt requests/resolutions, patch, close
    fnInput,      \* argument of a conversion applied on its own
    fnOutput      \* what the conversion returned

vars == <<args, secret, isTTY, instream, prompt, requests, delivered, pc, keys,
          pairs, kubectlCalls, stdout, stderr, err, exitCode, events,
          fnInput, fnOutput>>

cliVars == <<args, secret, isTTY, pc, keys, pairs, kubectlCalls, stdout,
             stderr, err, exitCode, fnInput, fnOutput>>

----------------------------------------------------------------------------
(* Bounds *)

MaxKeys == 2        \* longest key list on the command line
MaxEntries == 2     \* most entries in the cluster's secret
MaxLines == 2       \* most lines on standard input
MaxRequests == 3    \* most getNextLine calls of a free client

----------------------------------------------------------------------------
(* Sequences *)

SeqsUpTo(S, n) == UNION {[1..k -> S] : k \in 0..n}

Range(s) == {s[k] : k \in 1..Len(s)}

IsInjective(s) == \A x, y \in 1..Len(s) : s[x] = s[y] => x = y

RECURSIVE Flatten(_)
Flatten(ss) == IF ss = <<>> THEN <<>> ELSE Head(ss) \o Flatten(Tail(ss))

----------------------------------------------------------------------------
(* Array primitives of the line queue *)

\* Array.prototype.unshift: what push would be if the queue were back-read
arrayUnshift(queue, line) == <<line>> \o queue

\* this.linesQueue.push(line)
arrayPush(queue, line) == Append(queue, line)

\* value returned by this.linesQueue.shift()
arrayShiftValue(queue) == Head(queue)

\* reading the head without removing it
arrayShiftRestKeeps(queue) == queue

\* the queue left behind by this.linesQueue.shift()
arrayShiftRest(queue) == Tail(queue)

----------------------------------------------------------------------------
(* BetterPrompt *)

Undefined == 0

\* a constructor that hands outstream to readline whatever instream is
BetterPromptAlwaysOutput(tty) ==
    [ open           |-> TRUE,
      readlineOutput |-> TRUE,
      linesQueue     |-> <<>>,
      resolve        |-> 0,
      written        |-> <<>>,
      closed         |-> 0 ]

\* constructor (instream, outstream)
BetterPrompt(tty) ==
    [ open           |-> TRUE,
      readlineOutput |-> tty,       \* instream.isTTY ? outstream : undefined
      linesQueue     |-> <<>>,
      resolve        |-> Undefined,
      written        |-> <<>>,      \* prompts readline wrote to its output
      closed         |-> 0 ]        \* calls of readlineInterface.close()

\* the object before `new BetterPrompt` has run
NoPrompt == [BetterPrompt(FALSE) EXCEPT !.open = FALSE]

\* this.listenerResolve: read by getNextLine, assigned nowhere in the class
listenerResolve(p) == Undefined

Pending(r) == {j \in 1..Len(r) : r[j].state = "pending"}

\* handleLine without its else: the line is queued even when it is handed over
handleLinePromptNoElse(p, line) ==
    [p EXCEPT !.resolve = Undefined, !.linesQueue = arrayPush(p.linesQueue, line)]

\* handleLine(line): the prompt object afterwards
handleLinePrompt(p, line) ==
    IF p.resolve # Undefined
    THEN [p EXCEPT !.resolve = Undefined]
    ELSE [p EXCEPT !.linesQueue = arrayPush(p.linesQueue, line)]

\* handleLine(line): the promises afterwards (toResolve(line))
handleLineRequests(p, r, line) ==
    IF p.resolve # Undefined
    THEN [r EXCEPT ![p.resolve] = [@ EXCEPT !.state = "resolved", !.value = line]]
    ELSE r

\* readlineInterface.setPrompt(prompt); readlineInterface.prompt(true)
readlinePrompt(p, query) ==
    IF p.readlineOutput THEN [p EXCEPT !.written = Append(p.written, query)] ELSE p

\* a getNextLine that registers its waiter without looking at the queue
getNextLinePromptAlwaysWaits(p, r, query) ==
    [readlinePrompt(p, query) EXCEPT !.resolve = Len(r) + 1]

\* getNextLine(prompt): the prompt object afterwards
getNextLinePrompt(p, r, query) ==
    IF listenerResolve(p) # Undefined
    THEN p
    ELSE LET q == readlinePrompt(p, query) IN
         IF Len(q.linesQueue) > 0
         THEN [q EXCEPT !.linesQueue = arrayShiftRest(q.linesQueue)]
         ELSE [q EXCEPT !.resolve = Len(r) + 1]

\* a getNextLine that settles at once with an empty line when none is queued
getNextLinePromiseEager(p, r, query) ==
    LET hist == [ outstanding |-> Pending(r) # {},
                  deliveredBefore |-> Len(delivered),
                  queuedBefore |-> Len(p.linesQueue),
                  query |-> query,
                  waiterBefore |-> p.resolve ]
    IN  IF Len(p.linesQueue) > 0
        THEN [state |-> "resolved", value |-> arrayShiftValue(p.linesQueue), hist |-> hist]
        ELSE [state |-> "resolved", value |-> <<>>, hist |-> hist]

\* getNextLine(prompt): the promise it returns
getNextLinePromise(p, r, query) ==
    LET hist == [ outstanding |-> Pending(r) # {},
                  deliveredBefore |-> Len(delivered),
                  queuedBefore |-> Len(p.linesQueue),
                  query |-> query,
                  waiterBefore |-> p.resolve ]
    IN  IF listenerResolve(p) # Undefined
        THEN [state |-> "rejected", value |-> <<>>, hist |-> hist]
        ELSE IF Len(p.linesQueue) > 0
        THEN [state |-> "resolved", value |-> arrayShiftValue(p.linesQueue), hist |-> hist]
        ELSE [state |-> "pending", value |-> <<>>, hist |-> hist]

\* a close() that leaves the readline interface open
closePromptNoop(p) == p

\* close()
closePrompt(p) == [p EXCEPT !.closed = @ + 1]

----------------------------------------------------------------------------
(* Strings and Buffers *)

\* the base64 alphabet of Buffer, value v at position v + 1
B64 == << "A","B","C","D","E","F","G","H","I","J","K","L","M","N","O","P",
          "Q","R","S","T","U","V","W","X","Y","Z","a","b","c","d","e","f",
          "g","h","i","j","k","l","m","n","o","p","q","r","s","t","u","v",
          "w","x","y","z","0","1","2","3","4","5","6","7","8","9","+","/" >>

B64Value(c) == (CHOOSE v \in 1..64 : B64[v] = c) - 1

\* character code of the ASCII letters and digits
CharCode(c) ==
    LET v == B64Value(c) IN
    IF v < 26 THEN 65 + v ELSE IF v < 52 THEN 97 + (v - 26) ELSE 48 + (v - 52)

\* Buffer.from(value, 'utf-8')
BufferFromUtf8(text) == [k \in 1..Len(text) |-> CharCode(text[k])]

\* an encoder that leaves the padding out
RECURSIVE toStringBase64NoPad(_)
toStringBase64NoPad(b) ==
    IF Len(b) = 0 THEN <<>>
    ELSE IF Len(b) = 1 THEN
        << B64[(b[1] \div 4) + 1], B64[((b[1] % 4) * 16) + 1] >>
    ELSE IF Len(b) = 2 THEN
        << B64[(b[1] \div 4) + 1], B64[((b[1] % 4) * 16) + (b[2] \div 16) + 1],
           B64[((b[2] % 16) * 4) + 1] >>
    ELSE
        << B64[(b[1] \div 4) + 1], B64[((b[1] % 4) * 16) + (b[2] \div 16) + 1],
           B64[((b[2] % 16) * 4) + (b[3] \div 64) + 1], B64[(b[3] % 64) + 1] >>
        \o toStringBase64NoPad(SubSeq(b, 4, Len(b)))

\* buffer.toString('base64')
RECURSIVE toStringBase64(_)
toStringBase64(b) ==
    IF Len(b) = 0 THEN <<>>
    ELSE IF Len(b) = 1 THEN
        << B64[(b[1] \div 4) + 1], B64[((b[1] % 4) * 16) + 1], "=", "=" >>
    ELSE IF Len(b) = 2 THEN
        << B64[(b[1] \div 4) + 1], B64[((b[1] % 4) * 16) + (b[2] \div 16) + 1],
           B64[((b[2] % 16) * 4) + 1], "=" >>
    ELSE
        << B64[(b[1] \div 4) + 1], B64[((b[1] % 4) * 16) + (b[2] \div 16) + 1],
           B64[((b[2] % 16) * 4) + (b[3] \div 64) + 1], B64[(b[3] % 64) + 1] >>
        \o toStringBase64(SubSeq(b, 4, Len(b)))

\* the sextets Buffer.from(text, 'base64') reads: it stops at the first '='
\* and skips characters outside the alphabet
RECURSIVE Sextets(_)
Sextets(text) ==
    IF text = <<>> \/ Head(text) = "=" THEN <<>>
    ELSE IF \E v \in 1..64 : B64[v] = Head(text)
         THEN <<B64Value(Head(text))>> \o Sextets(Tail(text))
         ELSE Sextets(Tail(text))

RECURSIVE SextetsToBytes(_)
SextetsToBytes(x) ==
    IF Len(x) < 2 THEN <<>>
    ELSE IF Len(x) = 2 THEN << (x[1] * 4) + (x[2] \div 16) >>
    ELSE IF Len(x) = 3 THEN
        << (x[1] * 4) + (x[2] \div 16), ((x[2] % 16) * 16) + (x[3] \div 4) >>
    ELSE
        << (x[1] * 4) + (x[2] \div 16), ((x[2] % 16) * 16) + (x[3] \div 4),
           ((x[3] % 4) * 64) + x[4] >>
        \o SextetsToBytes(SubSeq(x, 5, Len(x)))

\* Buffer.from(encodedValue, 'base64')
BufferFromBase64(text) == SextetsToBytes(Sextets(text))

\* text.indexOf(c): 0-based, -1 when absent
indexOf(text, c) ==
    IF \E k \in 1..Len(text) : text[k] = c
    THEN (CHOOSE k \in 1..Len(text) : text[k] = c /\ \A m \in 1..(k - 1) : text[m] # c) - 1
    ELSE -1

Clamp(n, len) == IF n < 0 THEN 0 ELSE IF n > len THEN len ELSE n

\* text.substring(from, to), 0-based, negative arguments read as 0
substring(text, from, to) ==
    LET a == Clamp(from, Len(text))
        b == Clamp(to, Len(text))
        lo == IF a < b THEN a ELSE b
        hi == IF a < b THEN b ELSE a
    IN  SubSeq(text, lo + 1, hi)

\* text.split(sep) for a one-character separator
RECURSIVE split(_, _)
split(text, sep) ==
    LET at == indexOf(text, sep) IN
    IF at = -1 THEN <<text>>
    ELSE <<substring(text, 0, at)>> \o split(substring(text, at + 1, Len(text)), sep)

\* array.slice(0, array.length - 1)
sliceDropLast(a) == SubSeq(a, 1, Len(a) - 1)

----------------------------------------------------------------------------
(* The external tool *)

None == -1

\* no conversion is being applied on its own
NoCall == [kind |-> "none", text |-> <<>>, bytes |-> <<>>, pairs |-> <<>>]

\* outcomes of child_process.spawnSync: ran with status 0, ran with another
\* status, binary missing, any other spawn error
SpawnResults == {"ok", "status", "ENOENT", "error"}

\* go-template={{range $key, $value := .data}}{{$key}}:{{$value}}\n{{end}}
KeyValueTemplate(sec) ==
    Flatten([k \in 1..Len(sec) |-> sec[k].key \o <<":">> \o sec[k].value \o <<"\n">>])

\* go-template={{range $key, $ignored := .data}}{{$key}}\n{{end}}
KeyTemplate(sec) ==
    Flatten([k \in 1..Len(sec) |-> sec[k].key \o <<"\n">>])

\* one spawnSync of kubectl as recorded in kubectlCalls
Call(verb, format, payload, res) ==
    [verb |-> verb, format |-> format, payload |-> payload, result |-> res]

Event(type, verb, n, ok) == [type |-> type, verb |-> verb, n |-> n, ok |-> ok]

KubectlEvent(verb, res) == Event("kubectl", verb, 0, res = "ok")

\* isOk without the test of spawnResult.status
isOkUnlessSpawnError(res) == res \in {"ok", "status"}

\* runKubectlOrExit: isOk
isOk(res) == res = "ok"

\* runKubectlOrExit: what it writes to stderr before throwing ExitError(1)
commandErrorWrites(res, errorMessage) ==
    IF isOk(res) THEN <<>>
    ELSE <<[kind |-> "commandError", cause |-> res, key |-> <<>>]>>
         \o (IF errorMessage
             THEN <<[kind |-> "errorMessage", cause |-> res, key |-> <<>>]>>
             ELSE <<>>)

----------------------------------------------------------------------------
(* getSecret *)

\* const allLines = rawLines.slice(0, rawLines.length - 1)
allLines(getSecretsResult) == sliceDropLast(split(getSecretsResult, "\n"))

\* text.lastIndexOf(c): 0-based, -1 when absent
lastIndexOf(text, c) ==
    IF \E k \in 1..Len(text) : text[k] = c
    THEN (CHOOSE k \in 1..Len(text) : text[k] = c /\ \A m \in (k + 1)..Len(text) : text[m] # c) - 1
    ELSE -1

\* the key cut at the last colon of the record
lineKeyLastColon(line) == substring(line, 0, lastIndexOf(line, ":"))

\* const key = line.substring(0, colonIndex)
lineKey(line) == substring(line, 0, indexOf(line, ":"))

lineEncodedValue(line) == substring(line, indexOf(line, ":") + 1, Len(line))

\* shouldDecode ? Buffer.from(encodedValue, 'base64') : encodedValue
displayValue(encodedValue, shouldDecode) ==
    IF shouldDecode
    THEN [isBuffer |-> TRUE, text |-> <<>>, bytes |-> BufferFromBase64(encodedValue)]
    ELSE [isBuffer |-> FALSE, text |-> encodedValue, bytes |-> <<>>]

\* the entries handed to `new Map(...)`, in order
valuesByKey(lines, shouldDecode) ==
    [k \in 1..Len(lines) |->
        [key |-> lineKey(lines[k]),
         value |-> displayValue(lineEncodedValue(lines[k]), shouldDecode)]]

\* Map.prototype.has / get on a Map built from entries (a later entry wins)
mapHas(entries, key) == \E k \in 1..Len(entries) : entries[k].key = key

mapGet(entries, key) ==
    entries[CHOOSE k \in 1..Len(entries) :
                /\ entries[k].key = key
                /\ \A m \in (k + 1)..Len(entries) : entries[m].key # key].value

\* `keys` once the map callback has run: orderedKeys aliases keys, so the
\* keys pushed onto orderedKeys are pushed onto keys
keysAfterParse(keys0, lines) ==
    IF Len(keys0) > 0 THEN keys0
    ELSE keys0 \o [k \in 1..Len(lines) |-> lineKey(lines[k])]

\* !value for the result of valuesByKey.get(key)
notValue(entries, key) ==
    \/ ~mapHas(entries, key)
    \/ (~mapGet(entries, key).isBuffer /\ mapGet(entries, key).text = <<>>)

\* the guard `if (keys.length > 0)` in front of the validation
validates(ks) == Len(ks) > 0

\* the (key, encodedValue) pairs getSecret reads out of the tool's dump
parseSecretDump(getSecretsResult) ==
    LET entries == valuesByKey(allLines(getSecretsResult), FALSE)
    IN  [k \in 1..Len(entries) |-> [key |-> entries[k].key, value |-> entries[k].value.text]]

\* the keys the validation throws on, by position in keys
invalidAt(entries, ks) ==
    IF validates(ks) THEN {k \in 1..Len(ks) : notValue(entries, ks[k])} ELSE {}

firstInvalid(entries, ks) ==
    CHOOSE k \in invalidAt(entries, ks) : \A m \in invalidAt(entries, ks) : k <= m

\* process.stdout.write(displayValues.get(key))
Write(value) == [kind |-> "value", isBuffer |-> value.isBuffer,
                 text |-> value.text, bytes |-> value.bytes]

\* process.stdout.write of a literal or a template string
WriteText(kind, text) == [kind |-> kind, isBuffer |-> FALSE, text |-> text, bytes |-> <<>>]

Log(kind, text) == [kind |-> kind, isBuffer |-> FALSE, text |-> text, bytes |-> <<>>]

\* the header written by console.log
headerWrites(keysProvided, quiet, secretName) ==
    IF quiet THEN <<>>
    ELSE IF keysProvided THEN <<Log("Selected keys from", secretName)>>
    ELSE <<Log("All keys from", secretName)>>

\* the forEach body with a newline after every value in quiet mode too
keyWritesTrailingNewline(entries, orderedKeys, k, quiet) ==
    IF quiet
    THEN <<Write(mapGet(entries, orderedKeys[k])), WriteText("newline", <<"\n">>)>>
    ELSE << WriteText("label", orderedKeys[k] \o <<":", " ">>),
            Write(mapGet(entries, orderedKeys[k])),
            WriteText("newline", <<"\n">>) >>

\* the body of orderedKeys.forEach for the key at position k
keyWrites(entries, orderedKeys, k, quiet) ==
    IF quiet
    THEN <<Write(mapGet(entries, orderedKeys[k]))>>
         \o (IF k - 1 < Len(orderedKeys) - 1 THEN <<WriteText("newline", <<"\n">>)>> ELSE <<>>)
    ELSE << WriteText("label", orderedKeys[k] \o <<":", " ">>),
            Write(mapGet(entries, orderedKeys[k])),
            WriteText("newline", <<"\n">>) >>

\* getSecret after a successful fetch: what it writes and whether it throws
getSecretResult(getSecretsResult, keys0, shouldDecode, quiet, secretName) ==
    LET lines == allLines(getSecretsResult)
        keysProvided == Len(keys0) > 0
        entries == valuesByKey(lines, shouldDecode)
        ks == keysAfterParse(keys0, lines)
    IN  IF invalidAt(entries, ks) # {}
        THEN [ thrown |-> TRUE,
               stdout |-> <<>>,
               stderr |-> <<[kind |-> "keyNotFound", cause |-> secretName,
                             key |-> ks[firstInvalid(entries, ks)]]>> ]
        ELSE [ thrown |-> FALSE,
               stdout |-> headerWrites(keysProvided, quiet, secretName)
                          \o Flatten([k \in 1..Len(ks) |-> keyWrites(entries, ks, k, quiet)]),
               stderr |-> <<>> ]

----------------------------------------------------------------------------
(* setSecret *)

\* the listing without the slice that drops the piece after the last newline
listedKeysKeepLast(getSecretsResult) == split(getSecretsResult, "\n")

\* keys = getSecretsResult.split('\n'); keys = keys.slice(0, keys.length - 1)
listedKeys(getSecretsResult) == sliceDropLast(split(getSecretsResult, "\n"))

\* the prompt text for a key
promptText(skipEncode, key) == [encoded |-> skipEncode, key |-> key]

\* patchValue with the test of skipEncode inverted
patchValueInverted(value, skipEncode) ==
    IF skipEncode THEN toStringBase64(BufferFromUtf8(value)) ELSE value

\* value = Buffer.from(value, 'utf-8').toString('base64') unless skipEncode
patchValue(value, skipEncode) ==
    IF ~skipEncode THEN toStringBase64(BufferFromUtf8(value)) ELSE value

\* the key whose link of the reduce chain runs once ps has been collected
nextKey(ks, ps) == ks[Len(ps) + 1]

\* a chain whose final then does not wait for the remaining keys
afterLineTooEarly(ks, ps) == "patch"

\* what runs once ps has been collected: the next link, or the final then
afterLine(ks, ps) == IF Len(ps) = Len(ks) THEN "patch" ELSE "prompting"

\* createSecret without the test of keys.length
createSetsKeysAlways(ks) == TRUE

\* createSecret: if (keys.length > 0) return setSecret(...)
createSetsKeys(ks) == Len(ks) > 0

\* a confirmation printed whatever the patch returned
confirmationWritesAlways(res, secretName) == <<Log("updated", secretName)>>

\* console.log(`${secretName} updated.`), reached only when the patch did not throw
confirmationWrites(res, secretName) ==
    IF isOk(res) THEN <<Log("updated", secretName)>> ELSE <<>>

\* secret.data[key] = value on an object kept in insertion order
objectSet(data, key, value) ==
    IF \E k \in 1..Len(data) : data[k].key = key
    THEN [k \in 1..Len(data) |->
            IF data[k].key = key THEN [key |-> key, value |-> value] ELSE data[k]]
    ELSE Append(data, [key |-> key, value |-> value])

\* secret.data after pairs.forEach
RECURSIVE secretData(_, _, _)
secretData(data, ps, skipEncode) ==
    IF ps = <<>> THEN data
    ELSE secretData(objectSet(data, Head(ps).key, patchValue(Head(ps).value, skipEncode)),
                    Tail(ps), skipEncode)

----------------------------------------------------------------------------
(* Inputs *)

SecretName == <<"s">>

KeyNames == {<<"a">>, <<"b">>, <<"c">>}

\* keys the cluster's secret may hold
SecretKeys == {<<"a">>, <<"b">>}

\* base64 values the cluster's secret may hold: of "", "1" and "b"
SecretValues == {<<>>, <<"M", "Q", "=", "=">>, <<"Y", "g", "=", "=">>}

\* lines the user may type or pipe
Lines == {<<"1">>, <<"2">>, <<"a", "b", "c">>}

Secrets ==
    {sec \in SeqsUpTo([key : SecretKeys, value : SecretValues], MaxEntries) :
        \A x, y \in 1..Len(sec) : sec[x].key = sec[y].key => x = y}

Commands == {"get", "set", "create"}

\* the args object of parser.parseArgs(); flag is --decode for get and
\* --encoded for set and create
Args == [command : Commands, name : {SecretName}, key : SeqsUpTo(KeyNames, MaxKeys),
         flag : BOOLEAN, quiet : BOOLEAN]

----------------------------------------------------------------------------
(* The command line process: src/cli.js *)

Init ==
    /\ args \in Args
    /\ args.command # "get" => ~args.quiet
    /\ secret \in Secrets
    /\ (args.command = "create" \/ (args.command = "set" /\ args.key # <<>>))
          => secret = <<>>
    /\ isTTY \in BOOLEAN
    /\ instream \in SeqsUpTo(Lines, MaxLines)
    /\ args.command = "get" => (Len(instream) <= 1 /\ ~isTTY)
    /\ prompt = NoPrompt
    /\ requests = <<>>
    /\ delivered = <<>>
    /\ pc = "version"
    /\ keys = <<>>
    /\ pairs = <<>>
    /\ kubectlCalls = <<>>
    /\ stdout = <<>>
    /\ stderr = <<>>
    /\ err = "none"
    /\ exitCode = None
    /\ events = <<>>
    /\ fnInput = NoCall
    /\ fnOutput = NoCall

\* the executor of the top-level promise: runKubectlOrExit(['version'], ...)
VersionCheck ==
    /\ pc = "version"
    /\ \E res \in SpawnResults :
        /\ kubectlCalls' = Append(kubectlCalls, Call("version", "none", <<>>, res))
        /\ events' = Append(events, KubectlEvent("version", res))
        /\ stderr' = stderr \o commandErrorWrites(res, TRUE)
        /\ pc' = IF isOk(res) THEN "command" ELSE "rejected"
        /\ err' = IF isOk(res) THEN "none" ELSE "ExitError"
    /\ UNCHANGED <<fnInput, fnOutput, args, secret, isTTY, instream, prompt, requests, delivered,
                   keys, pairs, stdout, exitCode>>

\* case 'get': getSecret(args.namespace, args.name, args.key, decode, quiet)
GetSecret ==
    /\ pc = "command"
    /\ args.command = "get"
    /\ \E res \in SpawnResults :
        LET out == getSecretResult(KeyValueTemplate(secret), args.key, args.flag,
                                   args.quiet, args.name)
            thrown == ~isOk(res) \/ out.thrown
        IN  /\ kubectlCalls' = Append(kubectlCalls, Call("get", "keyvalue", <<>>, res))
            /\ events' = Append(events, KubectlEvent("get", res))
            /\ stderr' = stderr \o (IF isOk(res) THEN out.stderr
                                    ELSE commandErrorWrites(res, FALSE))
            /\ stdout' = stdout \o (IF isOk(res) THEN out.stdout ELSE <<>>)
            /\ pc' = IF thrown THEN "rejected" ELSE "fulfilled"
            /\ err' = IF thrown THEN "ExitError" ELSE "none"
    /\ UNCHANGED <<fnInput, fnOutput, args, secret, isTTY, instream, prompt, requests, delivered,
                   keys, pairs, exitCode>>

\* setSecret from `new BetterPrompt` on: the reduce only builds the chain
openPrompt(ks) ==
    /\ keys' = ks
    /\ prompt' = BetterPrompt(isTTY)
    /\ pc' = afterLine(ks, <<>>)
    /\ err' = "none"

\* case 'set': the synchronous part of setSecret
SetSecret ==
    /\ pc = "command"
    /\ args.command = "set"
    /\ IF Len(args.key) = 0
       THEN \E res \in SpawnResults :
            /\ kubectlCalls' = Append(kubectlCalls, Call("get", "keys", <<>>, res))
            /\ stderr' = stderr \o commandErrorWrites(res, FALSE)
            /\ IF isOk(res)
               THEN /\ openPrompt(listedKeys(KeyTemplate(secret)))
                    /\ events' = events \o <<KubectlEvent("get", res), Event("open", "", 0, TRUE)>>
               ELSE /\ pc' = "rejected"
                    /\ err' = "ExitError"
                    /\ events' = Append(events, KubectlEvent("get", res))
                    /\ UNCHANGED <<keys, prompt>>
       ELSE /\ openPrompt(args.key)
            /\ events' = Append(events, Event("open", "", 0, TRUE))
            /\ UNCHANGED <<kubectlCalls, stderr>>
    /\ UNCHANGED <<fnInput, fnOutput, args, secret, isTTY, instream, requests, delivered, pairs,
                   stdout, exitCode>>

\* case 'create': createSecret, and the synchronous part of the setSecret it calls
CreateSecret ==
    /\ pc = "command"
    /\ args.command = "create"
    /\ \E res \in SpawnResults :
        /\ kubectlCalls' = Append(kubectlCalls, Call("create", "none", <<>>, res))
        /\ stderr' = stderr \o commandErrorWrites(res, FALSE)
        /\ IF ~isOk(res)
           THEN /\ pc' = "rejected"
                /\ err' = "ExitError"
                /\ events' = Append(events, KubectlEvent("create", res))
                /\ UNCHANGED <<keys, prompt>>
           ELSE IF createSetsKeys(args.key)
           THEN /\ openPrompt(args.key)
                /\ events' = events \o <<KubectlEvent("create", res), Event("open", "", 0, TRUE)>>
           ELSE /\ pc' = "fulfilled"
                /\ err' = "none"
                /\ events' = Append(events, KubectlEvent("create", res))
                /\ UNCHANGED <<keys, prompt>>
    /\ UNCHANGED <<fnInput, fnOutput, args, secret, isTTY, instream, requests, delivered, pairs,
                   stdout, exitCode>>

\* prev.then(pairs => prompt.getNextLine(query)...) for the next key
PromptKey ==
    /\ pc = "prompting"
    /\ LET key == nextKey(keys, pairs)
           promise == getNextLinePromise(prompt, requests, promptText(args.flag, key))
       IN  /\ prompt' = getNextLinePrompt(prompt, requests, promptText(args.flag, key))
           /\ requests' = Append(requests, promise)
           /\ events' = Append(events, Event("request", "", Len(pairs) + 1, TRUE))
           /\ pc' = "waiting"
    /\ UNCHANGED <<fnInput, fnOutput, args, secret, isTTY, instream, delivered, keys, pairs,
                   kubectlCalls, stdout, stderr, err, exitCode>>

\* .then(value => { pairs.push([key, value]); return pairs }) once the promise
\* of getNextLine has settled
LineResolved ==
    /\ pc = "waiting"
    /\ requests[Len(requests)].state # "pending"
    /\ IF requests[Len(requests)].state = "resolved"
       THEN /\ pairs' = Append(pairs, [key |-> nextKey(keys, pairs),
                                       value |-> requests[Len(requests)].value])
            /\ events' = Append(events, Event("resolved", "", Len(pairs) + 1, TRUE))
            /\ pc' = afterLine(keys, pairs')
            /\ err' = err
       ELSE /\ pc' = "finally"
            /\ err' = "Error"
            /\ UNCHANGED <<pairs, events>>
    /\ UNCHANGED <<fnInput, fnOutput, args, secret, isTTY, instream, prompt, requests, delivered,
                   keys, kubectlCalls, stdout, stderr, exitCode>>

\* .then(pairs => { ...; runKubectlOrExit(patch); console.log(updated) })
Patch ==
    /\ pc = "patch"
    /\ \E res \in SpawnResults :
        /\ kubectlCalls' = Append(kubectlCalls,
               Call("patch", "none", secretData(<<>>, pairs, args.flag), res))
        /\ events' = Append(events, KubectlEvent("patch", res))
        /\ stderr' = stderr \o commandErrorWrites(res, FALSE)
        /\ stdout' = stdout \o confirmationWrites(res, args.name)
        /\ err' = IF isOk(res) THEN "none" ELSE "ExitError"
    /\ pc' = "finally"
    /\ UNCHANGED <<fnInput, fnOutput, args, secret, isTTY, instream, prompt, requests, delivered,
                   keys, pairs, exitCode>>

\* .finally(() => { prompt.close() })
Finally ==
    /\ pc = "finally"
    /\ prompt' = closePrompt(prompt)
    /\ events' = Append(events, Event("close", "", 0, TRUE))
    /\ pc' = IF err = "none" THEN "fulfilled" ELSE "rejected"
    /\ UNCHANGED <<fnInput, fnOutput, args, secret, isTTY, instream, requests, delivered, keys,
                   pairs, kubectlCalls, stdout, stderr, err, exitCode>>

\* .catch(e => { if (e.exitCode !== undefined) process.exit(e.exitCode) else throw e })
TopLevelCatch ==
    /\ pc = "rejected"
    /\ exitCode' = IF err = "ExitError" THEN 1 ELSE None
    /\ pc' = IF err = "ExitError" THEN "exited" ELSE "uncaught"
    /\ UNCHANGED <<fnInput, fnOutput, args, secret, isTTY, instream, prompt, requests, delivered,
                   keys, pairs, kubectlCalls, stdout, stderr, err, events>>

\* the chain is fulfilled and nothing keeps the event loop alive
ProcessExit ==
    /\ pc = "fulfilled"
    /\ exitCode' = 0
    /\ pc' = "exited"
    /\ UNCHANGED <<fnInput, fnOutput, args, secret, isTTY, instream, prompt, requests, delivered,
                   keys, pairs, kubectlCalls, stdout, stderr, err, events>>

\* standard input has ended while the promise of getNextLine is pending:
\* readline closes, nothing keeps the event loop alive and node exits with
\* status 0, the chain's remaining callbacks never run
EventLoopDrains ==
    /\ pc = "waiting"
    /\ requests[Len(requests)].state = "pending"
    /\ instream = <<>>
    /\ exitCode' = 0
    /\ pc' = "drained"
    /\ UNCHANGED <<fnInput, fnOutput, args, secret, isTTY, instream, prompt, requests,
                   delivered, keys, pairs, kubectlCalls, stdout, stderr, err, events>>

\* lines consumed from standard input although no readline interface exists
HandleLineWithoutInterface ==
    /\ prompt.closed = 0
    /\ instream # <<>>
    /\ prompt' = handleLinePrompt(prompt, Head(instream))
    /\ requests' = handleLineRequests(prompt, requests, Head(instream))
    /\ delivered' = Append(delivered, Head(instream))
    /\ instream' = Tail(instream)
    /\ UNCHANGED <<cliVars, events>>

\* readline emits 'line': handleLine(line)
HandleLine ==
    /\ prompt.open
    /\ prompt.closed = 0
    /\ instream # <<>>
    /\ prompt' = handleLinePrompt(prompt, Head(instream))
    /\ requests' = handleLineRequests(prompt, requests, Head(instream))
    /\ delivered' = Append(delivered, Head(instream))
    /\ instream' = Tail(instream)
    /\ UNCHANGED <<cliVars, events>>

Next ==
    \/ VersionCheck
    \/ GetSecret
    \/ SetSecret
    \/ CreateSecret
    \/ PromptKey
    \/ LineResolved
    \/ Patch
    \/ Finally
    \/ TopLevelCatch
    \/ ProcessExit
    \/ EventLoopDrains
    \/ HandleLine

Spec == Init /\ [][Next]_vars

----------------------------------------------------------------------------
(* The line buffer on its own: a client that calls getNextLine and close   *)
(* whenever it likes, against any arrival of lines.                        *)

ClientArgs == [command |-> "set", name |-> SecretName, key |-> <<>>,
               flag |-> FALSE, quiet |-> FALSE]

InitPrompt ==
    /\ args = ClientArgs
    /\ secret = <<>>
    /\ isTTY \in BOOLEAN
    /\ instream \in SeqsUpTo(Lines, MaxLines)
    /\ prompt = BetterPrompt(isTTY)
    /\ requests = <<>>
    /\ delivered = <<>>
    /\ pc = "client"
    /\ keys = <<>>
    /\ pairs = <<>>
    /\ kubectlCalls = <<>>
    /\ stdout = <<>>
    /\ stderr = <<>>
    /\ err = "none"
    /\ exitCode = None
    /\ events = <<>>
    /\ fnInput = NoCall
    /\ fnOutput = NoCall

\* a call of getNextLine(prompt)
ClientGetNextLine ==
    /\ pc = "client"
    /\ prompt.closed = 0
    /\ Len(requests) < MaxRequests
    /\ \E key \in {<<"a">>} :
        /\ prompt' = getNextLinePrompt(prompt, requests, promptText(FALSE, key))
        /\ requests' = Append(requests,
                              getNextLinePromise(prompt, requests, promptText(FALSE, key)))
    /\ events' = Append(events, Event("request", "", Len(requests) + 1, TRUE))
    /\ UNCHANGED <<cliVars, instream, delivered>>

\* a call of close()
ClientClose ==
    /\ pc = "client"
    /\ prompt.closed = 0
    /\ prompt' = closePrompt(prompt)
    /\ events' = Append(events, Event("close", "", 0, TRUE))
    /\ UNCHANGED <<cliVars, instream, requests, delivered>>

NextPrompt ==
    \/ ClientGetNextLine
    \/ ClientClose
    \/ HandleLine

SpecPrompt == InitPrompt /\ [][NextPrompt]_vars

----------------------------------------------------------------------------
(* Claims about the line buffer, checked under SpecPrompt *)

\* lines handleLine had delivered when the first getNextLine was called
DeliveredBeforeFirstCall == IF requests = <<>> THEN Len(delivered)
                            ELSE requests[1].hist.deliveredBefore

\* C1: when lines were delivered before any getNextLine call, the i-th call
\* resolves with the i-th delivered line, and the lines handed out are gone
\* from the queue: while no more calls were made than lines were delivered
\* beforehand, the queue is exactly the delivered lines not yet handed out.
C1_FifoOfEarlyLines ==
    /\ \A j \in 1..Len(requests) :
          j <= DeliveredBeforeFirstCall =>
              /\ requests[j].state = "resolved"
              /\ requests[j].value = delivered[j]
    /\ Len(requests) <= DeliveredBeforeFirstCall =>
          prompt.linesQueue = SubSeq(delivered, Len(requests) + 1, Len(delivered))

C1_Witness ==
    /\ Len(requests) >= 2
    /\ DeliveredBeforeFirstCall >= 2
    /\ delivered[1] # delivered[2]
    /\ requests[2].state = "resolved"

\* C2: a line that arrives while the waiter is set resolves the waiting
\* request with exactly that line, clears the waiter and leaves the queue
\* (and every other promise) as it was.
C2_HandOff ==
    [][ (Len(delivered') > Len(delivered) /\ prompt.resolve # Undefined) =>
            /\ requests'[prompt.resolve].state = "resolved"
            /\ requests'[prompt.resolve].value = Head(instream)
            /\ prompt'.resolve = Undefined
            /\ prompt'.linesQueue = prompt.linesQueue
            /\ \A j \in 1..Len(requests) : j # prompt.resolve => requests'[j] = requests[j]
      ]_vars

C2_Witness ==
    \E j \in 1..Len(requests) :
        /\ requests[j].hist.queuedBefore = 0
        /\ requests[j].state = "resolved"
        /\ requests[j].value = delivered[Len(delivered)]
        /\ prompt.resolve = Undefined
        /\ prompt.linesQueue = <<>>

\* C3: a getNextLine issued while an earlier one is still outstanding is
\* rejected, and a request that waits is resolved by the next line that
\* arrives (no line is delivered while it stays pending).
C3_SecondCallRejected ==
    /\ \A j \in 1..Len(requests) :
          requests[j].hist.outstanding => requests[j].state = "rejected"
    /\ \A j \in 1..Len(requests) :
          requests[j].state = "pending" => Len(delivered) = requests[j].hist.deliveredBefore

----------------------------------------------------------------------------
(* Claims about set and create, checked under Spec *)

IsPatch(e) == e.type = "kubectl" /\ e.verb = "patch"

IsPromptOrPatch(e) == e.type \in {"request", "resolved"} \/ IsPatch(e)

\* the m-th event of a key collection over n keys followed by the patch
ExpectedStep(m, n) ==
    IF m = (2 * n) + 1 THEN "patch"
    ELSE IF m % 2 = 1 THEN "request" ELSE "resolved"

StepOf(e) == IF IsPatch(e) THEN "patch" ELSE e.type

SetRuns == args.command \in {"set", "create"} /\ prompt.open

\* C4: for the key list k1..kn the prompts are issued and resolved strictly
\* in key order (request 1, resolution 1, request 2, resolution 2, ...), each
\* request asks for its own key, and the patch invocation comes after all n
\* resolutions.
C4_PromptsInKeyOrder ==
    SetRuns =>
        LET ev == SelectSeq(events, IsPromptOrPatch)
            n == Len(keys)
        IN  /\ Len(ev) <= (2 * n) + 1
            /\ \A m \in 1..Len(ev) :
                  /\ StepOf(ev[m]) = ExpectedStep(m, n)
                  /\ ~IsPatch(ev[m]) => ev[m].n = (m + 1) \div 2
            /\ \A j \in 1..Len(requests) : requests[j].hist.query.key = keys[j]
            /\ \A j \in 1..Len(pairs) : pairs[j].key = keys[j]

C4_Witness ==
    /\ SetRuns
    /\ Len(keys) = 2
    /\ keys[1] # keys[2]
    /\ Len(requests) = 2
    /\ requests[1].hist.queuedBefore = 0
    /\ requests[2].hist.queuedBefore = 0
    /\ \E m \in 1..Len(events) : IsPatch(events[m])
    /\ pc = "exited"

PatchCalls == SelectSeq(kubectlCalls, LAMBDA c : c.verb = "patch")

\* the base64 text of each line of Lines
Base64Of(line) ==
    IF line = <<"1">> THEN <<"M", "Q", "=", "=">>
    ELSE IF line = <<"2">> THEN <<"M", "g", "=", "=">>
    ELSE <<"Y", "W", "J", "j">>

PayloadValue(payload, key) ==
    (CHOOSE e \in Range(payload) : e.key = key).value

PatchHasRun == pc \in {"finally", "fulfilled", "rejected", "exited"}

\* C5: setSecret with an explicit list of n distinct keys, once its n lines
\* are read and the patch step has run, has issued exactly one patch, whose
\* data maps exactly the n keys, the i-th key to the base64 text of the i-th
\* input line, or to the line itself under --encoded.
C5_PatchPayload ==
    (/\ args.command = "set"
     /\ args.key # <<>>
     /\ IsInjective(args.key)
     /\ prompt.open
     /\ PatchHasRun) =>
        /\ Len(PatchCalls) = 1
        /\ {e.key : e \in Range(PatchCalls[1].payload)} = Range(args.key)
        /\ Len(PatchCalls[1].payload) = Len(args.key)
        /\ \A k \in 1..Len(args.key) :
              PayloadValue(PatchCalls[1].payload, args.key[k]) =
                  IF args.flag THEN delivered[k] ELSE Base64Of(delivered[k])

C5_Witness ==
    /\ args.command = "set"
    /\ args.key = << <<"a">>, <<"b">> >>
    /\ ~args.flag
    /\ delivered = << <<"1">>, <<"2">> >>
    /\ Len(PatchCalls) = 1
    /\ PatchCalls[1].payload = << [key |-> <<"a">>, value |-> <<"M", "Q", "=", "=">>],
                                  [key |-> <<"b">>, value |-> <<"M", "g", "=", "=">>] >>
    /\ PatchCalls[1].result = "ok"
    /\ exitCode = 0

\* the invocations the command itself issued, after the version check
CommandCalls == Tail(kubectlCalls)

\* C6: createSecret with zero keys issues exactly one invocation, the create,
\* and no patch, opens no line buffer, reads no line, and succeeds when the
\* create invocation does.
C6_CreateWithoutKeys ==
    (args.command = "create" /\ args.key = <<>> /\ kubectlCalls # <<>>) =>
        /\ Len(PatchCalls) = 0
        /\ ~prompt.open
        /\ requests = <<>>
        /\ delivered = <<>>
        /\ Len(CommandCalls) <= 1
        /\ (pc = "exited" /\ kubectlCalls[1].result = "ok") =>
              /\ Len(CommandCalls) = 1
              /\ CommandCalls[1].verb = "create"
              /\ (CommandCalls[1].result = "ok" <=> exitCode = 0)

C6_Witness ==
    /\ args.command = "create"
    /\ args.key = <<>>
    /\ instream # <<>>
    /\ Len(kubectlCalls) = 2
    /\ kubectlCalls[2].verb = "create"
    /\ pc = "exited"
    /\ exitCode = 0

LastIndex(type) ==
    CHOOSE m \in 1..Len(events) :
        events[m].type = type /\ \A m2 \in (m + 1)..Len(events) : events[m2].type # type

\* setSecret has been entered and the process has ended
SetEnded == args.command = "set" /\ pc = "exited" /\ Len(kubectlCalls) > 0
            /\ kubectlCalls[1].result = "ok"

\* C7 as stated: close() has been called exactly once on every exit path of
\* setSecret, the failure of the key listing included.
C7_ClosedOnEveryExit == SetEnded => prompt.closed = 1

\* C7 amended: close() is called at most once, only after every key's line
\* was requested and resolved, and exactly once on every exit path of
\* setSecret on which the line buffer was created (success and patch
\* failure); when the key listing fails no buffer exists and close() is not
\* called.
C7_ClosedOnceIfOpened ==
    /\ prompt.closed <= 1
    /\ prompt.closed = 1 =>
          /\ Len(pairs) = Len(keys)
          /\ \A j \in 1..Len(requests) : requests[j].state = "resolved"
          /\ Len(requests) = Len(keys)
          /\ \A m \in 1..Len(events) :
                events[m].type \in {"request", "resolved"} => m < LastIndex("close")
    /\ SetEnded => prompt.closed = (IF prompt.open THEN 1 ELSE 0)
    /\ (SetEnded /\ ~prompt.open) =>
          (Len(kubectlCalls) = 2 /\ kubectlCalls[2].format = "keys"
           /\ kubectlCalls[2].result # "ok")

C7_Witness ==
    /\ SetEnded
    /\ Len(keys) = 2
    /\ Len(PatchCalls) = 1
    /\ PatchCalls[1].result = "status"
    /\ prompt.closed = 1
    /\ exitCode = 1

FailedAt(m) == events[m].type = "kubectl" /\ ~events[m].ok

\* C8: after an external invocation has failed no further invocation and no
\* further prompt is issued, the operation is on its way out, and the process
\* ends with exit status 1.
C8_FailureAborts ==
    \A m \in 1..Len(events) :
        FailedAt(m) =>
            /\ \A m2 \in (m + 1)..Len(events) : events[m2].type \notin {"kubectl", "request"}
            /\ pc \in {"finally", "rejected", "exited"}
            /\ pc = "exited" => exitCode = 1

C8_Witness ==
    /\ Len(kubectlCalls) = 2
    /\ kubectlCalls[2].result = "ENOENT"
    /\ instream # <<>>
    /\ pc = "exited"
    /\ exitCode = 1

----------------------------------------------------------------------------
(* Claims about get, checked under Spec *)

\* getSecret has run on a fetched secret
GetRan == /\ args.command = "get"
          /\ Len(kubectlCalls) = 2
          /\ kubectlCalls[2].result = "ok"

\* the bytes each value of SecretValues stands for
DecodedOf(value) ==
    IF value = <<>> THEN <<>>
    ELSE IF value = <<"M", "Q", "=", "=">> THEN <<49>>
    ELSE <<98>>

\* what get is to write for an entry's value
Shown(value) ==
    IF args.flag
    THEN [kind |-> "value", isBuffer |-> TRUE, text |-> <<>>, bytes |-> DecodedOf(value)]
    ELSE [kind |-> "value", isBuffer |-> FALSE, text |-> value, bytes |-> <<>>]

ValuesWritten == SelectSeq(stdout, LAMBDA w : w.kind = "value")

LabelsWritten == SelectSeq(stdout, LAMBDA w : w.kind = "label")

SecretValueOf(key) == (CHOOSE e \in Range(secret) : e.key = key).value

\* stdout shows exactly these entries, in this order
Shows(entries) ==
    /\ ValuesWritten = [k \in 1..Len(entries) |-> Shown(entries[k].value)]
    /\ ~args.quiet =>
          LabelsWritten = [k \in 1..Len(entries) |->
                              WriteText("label", entries[k].key \o <<":", " ">>)]

\* C9: getSecret with an empty requested-key list succeeds and outputs every
\* entry of the fetched secret in the order the tool emitted them, whatever
\* the values (empty ones included) and for both settings of the decode flag.
C9_AllEntriesShown ==
    (GetRan /\ args.key = <<>>) => (err = "none" /\ Shows(secret))

\* C10: getSecret with a non-empty requested-key list outputs the requested
\* entries in requested order; when a requested key is absent from the secret
\* it reports key-not-found naming an absent key and the secret, writes
\* nothing to standard output and exits with status 1.
C10_RequestedEntriesOrKeyNotFound ==
    (GetRan /\ args.key # <<>>) =>
        IF \A k \in 1..Len(args.key) : \E e \in Range(secret) : e.key = args.key[k]
        THEN /\ err = "none"
             /\ Shows([k \in 1..Len(args.key) |->
                          [key |-> args.key[k], value |-> SecretValueOf(args.key[k])]])
        ELSE /\ err = "ExitError"
             /\ stdout = <<>>
             /\ Len(stderr) = 1
             /\ stderr[1].kind = "keyNotFound"
             /\ stderr[1].cause = args.name
             /\ stderr[1].key \in Range(args.key)
             /\ \A e \in Range(secret) : e.key # stderr[1].key
             /\ pc = "exited" => exitCode = 1

----------------------------------------------------------------------------
(* The parsing of the tool's dump on its own *)

MaxRecords == 2     \* most records in a dump that is parsed on its own

DumpKeys == {<<"f", "o", "o">>, <<"b", "a", "z">>, <<"a">>}

\* values the template may emit: base64 texts, the empty value, and values
\* that hold colons themselves
DumpValues == { <<"Y", "m", "F", "y">>, <<"c", "X", "V", "1", "e", "A", "=", "=">>, <<>>,
                <<"a", ":", "b">>, <<":">>, <<":", ":">> }

DumpSecrets ==
    {sec \in SeqsUpTo([key : DumpKeys, value : DumpValues], MaxRecords) :
        \A x, y \in 1..Len(sec) : sec[x].key = sec[y].key => x = y}

InitParse ==
    /\ args = ClientArgs
    /\ secret \in DumpSecrets
    /\ isTTY = FALSE
    /\ instream = <<>>
    /\ prompt = NoPrompt
    /\ requests = <<>>
    /\ delivered = <<>>
    /\ pc = "parse"
    /\ keys = <<>>
    /\ pairs = <<>>
    /\ kubectlCalls = <<>>
    /\ stdout = <<>>
    /\ stderr = <<>>
    /\ err = "none"
    /\ exitCode = None
    /\ events = <<>>
    /\ fnInput = [NoCall EXCEPT !.kind = "dump", !.text = KeyValueTemplate(secret)]
    /\ fnOutput = NoCall

\* getSecret's split of the dump into lines and of each line at its colon
ParseDump ==
    /\ pc = "parse"
    /\ fnInput.kind = "dump"
    /\ fnOutput = NoCall
    /\ fnOutput' = [NoCall EXCEPT !.kind = "parsed", !.pairs = parseSecretDump(fnInput.text)]
    /\ UNCHANGED <<fnInput, args, secret, isTTY, instream, prompt, requests, delivered,
                   pc, keys, pairs, kubectlCalls, stdout, stderr, err, exitCode, events>>

NextParse == ParseDump

SpecParse == InitParse /\ [][NextParse]_vars

\* C11: parsing the dump of newline-terminated key:value records gives back
\* the emitted (key, value) pairs in emission order: each record is cut at its
\* first colon, so a value that holds colons stays whole, and the empty piece
\* after the final newline is no record.
C11_ParseSplitsAtFirstColon ==
    fnOutput.kind = "parsed" => fnOutput.pairs = secret

C11_Witness ==
    /\ fnInput.text = << "f", "o", "o", ":", "Y", "m", "F", "y", "\n",
                         "b", "a", "z", ":", "c", "X", "V", "1", "e", "A", "=", "=", "\n" >>
    /\ fnOutput.kind = "parsed"
    /\ fnOutput.pairs = << [key |-> <<"f", "o", "o">>, value |-> <<"Y", "m", "F", "y">>],
                           [key |-> <<"b", "a", "z">>,
                            value |-> <<"c", "X", "V", "1", "e", "A", "=", "=">>] >>


\* the entries get is to display: the requested ones, or all of them
SelectedEntries ==
    IF args.key = <<>> THEN secret
    ELSE [k \in 1..Len(args.key) |->
            [key |-> args.key[k], value |-> SecretValueOf(args.key[k])]]

Newline == WriteText("newline", <<"\n">>)

\* the values separated by single newlines, none after the last
QuietOutput(entries) ==
    [m \in 1..(IF Len(entries) = 0 THEN 0 ELSE (2 * Len(entries)) - 1) |->
        IF m % 2 = 1 THEN Shown(entries[(m + 1) \div 2].value) ELSE Newline]

\* one "key: value" line per entry
LabelledLines(entries) ==
    [m \in 1..(3 * Len(entries)) |->
        LET e == entries[((m - 1) \div 3) + 1] IN
        IF m % 3 = 1 THEN WriteText("label", e.key \o <<":", " ">>)
        ELSE IF m % 3 = 2 THEN Shown(e.value)
        ELSE Newline]

\* C12: a getSecret that succeeds writes, in quiet mode, only the selected
\* values separated by single newlines with none after the last and neither
\* header nor labels; otherwise one header line followed by one newline-
\* terminated "key: value" line per selected key.
C12_OutputFormat ==
    (GetRan /\ err = "none") =>
        IF args.quiet
        THEN stdout = QuietOutput(SelectedEntries)
        ELSE /\ Len(stdout) >= 1
             /\ stdout[1].kind \in {"Selected keys from", "All keys from"}
             /\ stdout[1].text = args.name
             /\ Tail(stdout) = LabelledLines(SelectedEntries)

C12_Witness ==
    /\ GetRan
    /\ err = "none"
    /\ args.quiet
    /\ Len(args.key) = 2
    /\ Len(stdout) = 3
    /\ stdout[1].kind = "value"
    /\ stdout[2] = Newline
    /\ stdout[3].kind = "value"
    /\ stdout[1] # stdout[3]


----------------------------------------------------------------------------
(* Further claims about the line buffer, checked under SpecPrompt *)

\* C13: the prompt text of every getNextLine call is written to the output
\* when standard input is a terminal, and no prompt text is ever written
\* when it is not, whatever calls and line arrivals happen.
C13_PromptOnlyOnTerminal ==
    prompt.written = IF isTTY THEN [j \in 1..Len(requests) |-> requests[j].hist.query]
                     ELSE <<>>

C13_Witness ==
    /\ ~isTTY
    /\ Len(requests) >= 2
    /\ delivered # <<>>
    /\ requests[1].hist.queuedBefore = 0
    /\ prompt.written = <<>>


----------------------------------------------------------------------------
(* Claims about the process as a whole, checked under Spec *)

ProcessEnded == pc \in {"exited", "uncaught", "drained"}

CallOk(verb) == \E k \in 1..Len(kubectlCalls) :
                    kubectlCalls[k].verb = verb /\ kubectlCalls[k].result = "ok"

\* the command did all it was asked to do
CommandCompleted ==
    /\ err = "none"
    /\ args.command = "get" => CallOk("get")
    /\ args.command = "set" => CallOk("patch")
    /\ args.command = "create" => (CallOk("create") /\ (args.key # <<>> => CallOk("patch")))

\* C14: an error of a known kind ends the process with exit status 1, any
\* other error is re-raised by the top-level handler, and the process exits
\* with status 0 only when the command completed successfully.
C14_ExitStatusReflectsOutcome ==
    /\ (ProcessEnded /\ err = "ExitError") => (pc = "exited" /\ exitCode = 1)
    /\ (ProcessEnded /\ err = "Error") => (pc = "uncaught" /\ exitCode = None)
    /\ exitCode = 1 => err = "ExitError"
    /\ exitCode = 0 => CommandCompleted


----------------------------------------------------------------------------
(* The base64 conversions on their own *)

MaxBytes == 3       \* longest Buffer that is encoded on its own
MaxGroups == 2      \* most 4-character groups of a text that is decoded on its own

ByteValues == {0, 49, 255}

Buffers == SeqsUpTo(ByteValues, MaxBytes)

Base64Chars == {"M", "Q"}

FullGroups == {<<a, b, c, d>> : a \in Base64Chars, b \in Base64Chars,
                                c \in Base64Chars, d \in Base64Chars}

PaddedGroups == {<<a, b, c, "=">> : a \in Base64Chars, b \in Base64Chars, c \in Base64Chars}
                \cup {<<a, b, "=", "=">> : a \in Base64Chars, b \in Base64Chars}

\* the padded base64 texts of at most n groups: full groups, the last one
\* possibly padded
RECURSIVE Base64Texts(_)
Base64Texts(n) ==
    IF n = 0 THEN {<<>>}
    ELSE {<<>>} \cup PaddedGroups
         \cup {g \o t : g \in FullGroups, t \in Base64Texts(n - 1)}

InitBase64 ==
    /\ args = ClientArgs
    /\ secret = <<>>
    /\ isTTY = FALSE
    /\ instream = <<>>
    /\ prompt = NoPrompt
    /\ requests = <<>>
    /\ delivered = <<>>
    /\ pc = "base64"
    /\ keys = <<>>
    /\ pairs = <<>>
    /\ kubectlCalls = <<>>
    /\ stdout = <<>>
    /\ stderr = <<>>
    /\ err = "none"
    /\ exitCode = None
    /\ events = <<>>
    /\ \/ \E b \in Buffers : fnInput = [NoCall EXCEPT !.kind = "bytes", !.bytes = b]
       \/ \E x \in Base64Texts(MaxGroups) :
              fnInput = [NoCall EXCEPT !.kind = "base64", !.text = x]
    /\ fnOutput = NoCall

\* setSecret's toString('base64') followed by getSecret's Buffer.from(.., 'base64')
EncodeThenDecode ==
    /\ pc = "base64"
    /\ fnInput.kind = "bytes"
    /\ fnOutput = NoCall
    /\ fnOutput' = [NoCall EXCEPT !.kind = "bytes",
                                  !.bytes = BufferFromBase64(toStringBase64(fnInput.bytes))]
    /\ UNCHANGED <<fnInput, args, secret, isTTY, instream, prompt, requests, delivered,
                   pc, keys, pairs, kubectlCalls, stdout, stderr, err, exitCode, events>>

\* getSecret's Buffer.from(.., 'base64') followed by setSecret's toString('base64')
DecodeThenEncode ==
    /\ pc = "base64"
    /\ fnInput.kind = "base64"
    /\ fnOutput = NoCall
    /\ fnOutput' = [NoCall EXCEPT !.kind = "base64",
                                  !.text = toStringBase64(BufferFromBase64(fnInput.text))]
    /\ UNCHANGED <<fnInput, args, secret, isTTY, instream, prompt, requests, delivered,
                   pc, keys, pairs, kubectlCalls, stdout, stderr, err, exitCode, events>>

NextBase64 ==
    \/ EncodeThenDecode
    \/ DecodeThenEncode

SpecBase64 == InitBase64 /\ [][NextBase64]_vars

\* the bits of the last character that carry no data are zero
Canonical(x) ==
    IF x = <<>> \/ x[Len(x)] # "=" THEN TRUE
    ELSE IF x[Len(x) - 1] = "=" THEN B64Value(x[Len(x) - 2]) % 16 = 0
    ELSE B64Value(x[Len(x) - 1]) % 4 = 0

\* C15 as stated: decoding then encoding returns every valid base64 text,
\* and encoding then decoding returns every byte sequence.
C15_RoundTrip ==
    /\ fnOutput.kind = "bytes" => fnOutput.bytes = fnInput.bytes
    /\ fnOutput.kind = "base64" => fnOutput.text = fnInput.text

\* C15 amended: encoding then decoding returns every byte sequence, and
\* decoding then encoding returns every canonical base64 text (padded, the
\* unused bits of its last character zero).
C15_RoundTripCanonical ==
    /\ fnOutput.kind = "bytes" => fnOutput.bytes = fnInput.bytes
    /\ (fnOutput.kind = "base64" /\ Canonical(fnInput.text)) => fnOutput.text = fnInput.text

C15_Witness ==
    /\ fnInput.kind = "base64"
    /\ fnInput.text = <<"M", "Q", "Q", "M", "M", "Q", "=", "=">>
    /\ fnOutput.kind = "base64"
    /\ fnOutput.text = fnInput.text


----------------------------------------------------------------------------
(* Further claims about set and create, checked under Spec *)

IsCall(e, verb) == e.type = "kubectl" /\ e.verb = verb

\* some invocation of verb was issued before the m-th event
CalledBefore(verb, m) == \E m0 \in 1..(m - 1) : IsCall(events[m0], verb)

\* C16: createSecret with keys issues the create invocation before the line
\* buffer is opened, before any line request and before the patch; when the
\* create fails nothing of that happens; the only invocations are version,
\* create and patch, and a failed patch is the last one (nothing is rolled
\* back).
C16_CreateComesFirst ==
    (args.command = "create" /\ args.key # <<>>) =>
        /\ \A m \in 1..Len(events) :
              (events[m].type \in {"open", "request", "resolved", "close"}
               \/ IsPatch(events[m])) => CalledBefore("create", m)
        /\ Len(kubectlCalls) < 2 => (~prompt.open /\ requests = <<>>)
        /\ (Len(kubectlCalls) >= 2 /\ kubectlCalls[2].result # "ok") =>
              /\ ~prompt.open
              /\ requests = <<>>
              /\ prompt.written = <<>>
              /\ Len(kubectlCalls) = 2
        /\ \A k \in 1..Len(kubectlCalls) :
              /\ kubectlCalls[k].verb \in {"version", "create", "patch"}
              /\ (kubectlCalls[k].verb = "patch" /\ kubectlCalls[k].result # "ok")
                    => k = Len(kubectlCalls)

C16_Witness ==
    /\ args.command = "create"
    /\ Len(args.key) = 2
    /\ Len(kubectlCalls) = 3
    /\ kubectlCalls[2].verb = "create"
    /\ kubectlCalls[2].result = "ok"
    /\ kubectlCalls[3].verb = "patch"
    /\ kubectlCalls[3].result = "status"
    /\ pc = "exited"
    /\ exitCode = 1

GetCalls == SelectSeq(kubectlCalls, LAMBDA c : c.verb = "get")

\* the keys of the cluster's secret in the order the tool lists them
ListedKeys == [k \in 1..Len(secret) |-> secret[k].key]

\* C17: setSecret without explicit keys issues exactly one key-listing get
\* before it opens the line buffer, requests one line per listed key in
\* listing order, and then issues exactly one patch whose data holds exactly
\* the listed keys (none when the secret has none).
C17_SetAllListedKeys ==
    (args.command = "set" /\ args.key = <<>>) =>
        /\ Len(GetCalls) <= 1
        /\ Len(PatchCalls) <= 1
        /\ prompt.open =>
              /\ Len(GetCalls) = 1
              /\ GetCalls[1].format = "keys"
              /\ GetCalls[1].result = "ok"
              /\ keys = ListedKeys
              /\ \A m \in 1..Len(events) : events[m].type = "open" => CalledBefore("get", m)
        /\ Len(requests) <= Len(secret)
        /\ \A j \in 1..Len(requests) : requests[j].hist.query.key = ListedKeys[j]
        /\ (prompt.open /\ PatchHasRun) =>
              /\ Len(requests) = Len(secret)
              /\ Len(PatchCalls) = 1
              /\ [k \in 1..Len(PatchCalls[1].payload) |-> PatchCalls[1].payload[k].key]
                    = ListedKeys

C17_Witness ==
    /\ args.command = "set"
    /\ args.key = <<>>
    /\ Len(secret) = 2
    /\ Len(requests) = 2
    /\ Len(PatchCalls) = 1
    /\ PatchCalls[1].result = "ok"
    /\ exitCode = 0

Confirmations == SelectSeq(stdout, LAMBDA w : w.kind = "updated")

\* C18: a set or create prints the confirmation line at most once, and only
\* once the patch invocation has returned successfully as the last
\* invocation; when any invocation failed no confirmation is printed.
C18_ConfirmationOnlyAfterPatch ==
    args.command \in {"set", "create"} =>
        /\ Len(Confirmations) <= 1
        /\ Len(Confirmations) = 1 =>
              /\ Confirmations[1].text = args.name
              /\ kubectlCalls[Len(kubectlCalls)].verb = "patch"
              /\ kubectlCalls[Len(kubectlCalls)].result = "ok"
        /\ (\E k \in 1..Len(kubectlCalls) : kubectlCalls[k].result # "ok")
              => Confirmations = <<>>

C18_Witness ==
    /\ args.command = "create"
    /\ Len(Confirmations) = 1
    /\ Len(PatchCalls) = 1
    /\ pc = "exited"
    /\ exitCode = 0

\* C19: when standard input has ended with fewer lines than requests issued,
\* the outstanding request stays pending (neither resolved nor rejected), no
\* patch is issued, no confirmation is printed and close() is not called.
C19_EndOfInputLeavesRequestPending ==
    (SetRuns /\ instream = <<>> /\ Len(requests) > Len(delivered)) =>
        /\ requests[Len(requests)].state = "pending"
        /\ \A j \in 1..Len(requests) : requests[j].state # "rejected"
        /\ PatchCalls = <<>>
        /\ Confirmations = <<>>
        /\ prompt.closed = 0
        /\ pc \in {"waiting", "drained"}

C19_Witness ==
    /\ SetRuns
    /\ Len(keys) = 2
    /\ instream = <<>>
    /\ Len(delivered) = 1
    /\ Len(requests) = 2
    /\ requests[1].state = "resolved"
    /\ requests[2].state = "pending"
    /\ pc = "drained"


----------------------------------------------------------------------------
(* No line is lost: checked under SpecPrompt *)

\* every getNextLine was called with no earlier request outstanding
SequentialUse == \A j \in 1..Len(requests) : ~requests[j].hist.outstanding

Resolved == SelectSeq(requests, LAMBDA q : q.state = "resolved")

\* the values the requests returned, in call order
ReturnedValues == [j \in 1..Len(Resolved) |-> Resolved[j].value]

\* C20: under sequential use, the values returned by the requests followed by
\* the lines still queued are exactly the lines delivered so far, in delivery
\* order: no line is lost, duplicated or reordered.
C20_NoLineLost ==
    SequentialUse => ReturnedValues \o prompt.linesQueue = delivered

C20_Witness ==
    /\ SequentialUse
    /\ Len(requests) = 3
    /\ requests[1].hist.queuedBefore = 0
    /\ requests[1].state = "resolved"
    /\ requests[2].hist.queuedBefore = 1
    /\ requests[2].value # requests[1].value
    /\ requests[3].state = "pending"
    /\ Len(delivered) = 2


----------------------------------------------------------------------------
(* The waiter and the queue: checked under SpecPrompt *)

\* C21: in every reachable state of the line buffer a waiter is registered
\* only while the lines queue is empty.
C21_WaiterImpliesQueueEmpty ==
    prompt.resolve # Undefined => prompt.linesQueue = <<>>

\* a waiter is registered after lines had been queued and taken again
C21_Witness ==
    /\ prompt.resolve # Undefined
    /\ Len(delivered) >= 1
    /\ \E j \in 1..Len(requests) : requests[j].hist.queuedBefore > 0


----------------------------------------------------------------------------
(* Key-not-found, checked under Spec *)

\* the keys get is to display: the requested ones, or every key of the secret
KeysToDisplay ==
    IF args.key = <<>> THEN [k \in 1..Len(secret) |-> secret[k].key] ELSE args.key

PresentInSecret(key) == \E e \in Range(secret) : e.key = key

\* C22: getSecret reports key-not-found only for a key that is absent from
\* the fetched secret; when every key to display is present (whatever its
\* value, for either decode setting, keys requested or not) it succeeds and
\* prints all of them.
C22_KeyNotFoundOnlyWhenAbsent ==
    GetRan =>
        /\ \A w \in Range(stderr) : w.kind = "keyNotFound" => ~PresentInSecret(w.key)
        /\ (\A k \in 1..Len(KeysToDisplay) : PresentInSecret(KeysToDisplay[k])) =>
              /\ err = "none"
              /\ Shows([k \in 1..Len(KeysToDisplay) |->
                           [key |-> KeysToDisplay[k],
                            value |-> SecretValueOf(KeysToDisplay[k])]])


----------------------------------------------------------------------------
(* get is read-only, checked under Spec *)

\* the invocations after the version check
CallsAfterVersion == SubSeq(kubectlCalls, 2, Len(kubectlCalls))

\* the version check passed and case 'get' has called getSecret
GetSecretCalled ==
    /\ args.command = "get"
    /\ Len(kubectlCalls) >= 1
    /\ isOk(kubectlCalls[1].result)
    /\ pc # "command"

\* C23: getSecret is read-only: on every path it issues exactly one external
\* invocation, of verb get, never a create or a patch, and it never opens a
\* line buffer or reads standard input.
C23_GetIsReadOnly ==
    args.command = "get" =>
        /\ \A m \in 1..Len(CallsAfterVersion) : CallsAfterVersion[m].verb = "get"
        /\ Len(CallsAfterVersion) <= 1
        /\ GetSecretCalled => Len(CallsAfterVersion) = 1
        /\ \A m \in 1..Len(events) : events[m].type = "kubectl"
        /\ prompt = NoPrompt
        /\ requests = <<>>
        /\ delivered = <<>>

\* get has finished while a line was waiting on standard input, unread
C23_Witness ==
    /\ GetSecretCalled
    /\ pc = "exited"
    /\ exitCode = 0
    /\ stdout # <<>>
    /\ instream # <<>>
    /\ Len(CallsAfterVersion) = 1


----------------------------------------------------------------------------
(* The version check, checked under Spec *)

VersionCheckFailed ==
    /\ Len(kubectlCalls) >= 1
    /\ kubectlCalls[1].result # "ok"

\* C24: every run invokes the tool's version check first, before any get,
\* create or patch of the command; when that check fails no invocation of the
\* command is issued, no line buffer is opened and no prompt shown, and the
\* process exits with status 1.
C24_VersionCheckFirst ==
    /\ \A m \in 1..Len(kubectlCalls) : (kubectlCalls[m].verb = "version") <=> (m = 1)
    /\ \A m \in 1..Len(events) : (events[m].verb = "version") <=> (m = 1)
    /\ VersionCheckFailed =>
          /\ Len(kubectlCalls) = 1
          /\ Len(events) = 1
          /\ prompt = NoPrompt
          /\ requests = <<>>
          /\ stdout = <<>>
          /\ err = "ExitError"
          /\ pc \in {"rejected", "exited"}
          /\ pc = "exited" => exitCode = 1

\* a set on a terminal with input waiting has ended at the version check
C24_Witness ==
    /\ VersionCheckFailed
    /\ args.command = "set"
    /\ args.key # <<>>
    /\ isTTY
    /\ instream # <<>>
    /\ pc = "exited"
    /\ exitCode = 1

====
